---- MODULE Spec2Model ----
(***************************************************************************)
(* Model of alacritheme (src/main.go): a bubbletea program that lists      *)
(* theme files, previews the highlighted one and patches the Alacritty     *)
(* config file, restoring the file's original bytes on quit.               *)
(*                                                                         *)
(* The config file is a sequence of TOML lines; Unmarshal and Encode are   *)
(* modelled by what they do to such a sequence.  Commands returned from    *)
(* Update run in their own goroutines, so a config patch is two steps      *)
(* (read the file, write the file) that interleave with the event loop.    *)
(***************************************************************************)
EXTENDS Integers, Sequences, FiniteSets, TLC

\* ------------------------------------------------------------------ bounds
MaxKeys == 2          \* key events handled in one run
MaxResizes == 1       \* window-size events handled in one run
MaxExternalWrites == 1 \* writes to the config file by other programs
MaxChildren == 3      \* children of a directory given to loadFiles
MaxCalls == 2         \* updateConfig calls when it is exercised on its own
MaxLayoutResizes == 3 \* window-size events when the layout is exercised on its own
PerPage == 2          \* rows of the list pane's paginator

\* ------------------------------------------------------- TOML documents
\* A value is a one-field record: [b |-> bool], [s |-> string],
\* [l |-> list of paths] or [tb |-> table], a table being a function from
\* keys to values.  A file is a sequence of lines.
NoTable == ""
EmptyTable == << >>

IsTable(v) == "tb" \in DOMAIN v

Put(t, k, v) == [x \in (DOMAIN t) \cup {k} |-> IF x = k THEN v ELSE t[x]]

Comment == [k |-> "comment"]
Garbage == [k |-> "garbage"]
Header(name) == [k |-> "header", name |-> name]
KV(key, val) == [k |-> "kv", key |-> key, val |-> val]

ParseError == [ok |-> FALSE, isNil |-> TRUE, doc |-> EmptyTable]

\* toml.Unmarshal into a map[string]interface{}: walks the lines, rejects a
\* malformed line, a redefined table and a duplicate key; the map stays nil
\* when the document holds no expression.
RECURSIVE ParseLines(_, _, _, _)
ParseLines(lines, cur, doc, seen) ==
    IF lines = << >> THEN [ok |-> TRUE, isNil |-> ~seen, doc |-> doc]
    ELSE LET ln == Head(lines)
             rest == Tail(lines)
         IN  CASE ln.k = "comment" -> ParseLines(rest, cur, doc, seen)
               [] ln.k = "garbage" -> ParseError
               [] ln.k = "header" ->
                    IF ln.name \in DOMAIN doc THEN ParseError
                    ELSE ParseLines(rest, ln.name, Put(doc, ln.name, [tb |-> EmptyTable]), TRUE)
               [] ln.k = "kv" ->
                    IF cur = NoTable
                    THEN IF ln.key \in DOMAIN doc THEN ParseError
                         ELSE ParseLines(rest, cur, Put(doc, ln.key, ln.val), TRUE)
                    ELSE IF ln.key \in DOMAIN doc[cur].tb THEN ParseError
                         ELSE ParseLines(rest, cur,
                                  Put(doc, cur, [tb |-> Put(doc[cur].tb, ln.key, ln.val)]), TRUE)

Unmarshal(lines) == ParseLines(lines, NoTable, EmptyTable, FALSE)

\* The encoder writes keys in lexicographic order, the plain keys of a table
\* before its sub-tables.
KeyOrder == <<"font", "general", "import", "live_config_reload", "window">>

RECURSIVE SortedFrom(_, _)
SortedFrom(S, i) ==
    IF i > Len(KeyOrder) THEN << >>
    ELSE IF KeyOrder[i] \in S THEN <<KeyOrder[i]>> \o SortedFrom(S, i + 1)
         ELSE SortedFrom(S, i + 1)

SortedKeys(S) == SortedFrom(S, 1)

PlainKeys(t) == {x \in DOMAIN t : ~IsTable(t[x])}
TableKeys(t) == {x \in DOMAIN t : IsTable(t[x])}

EncodePlain(t) ==
    LET ks == SortedKeys(PlainKeys(t))
    IN  [i \in 1..Len(ks) |-> KV(ks[i], t[ks[i]])]

RECURSIVE EncodeTables(_, _)
EncodeTables(doc, ks) ==
    IF ks = << >> THEN << >>
    ELSE <<Header(Head(ks))>> \o EncodePlain(doc[Head(ks)].tb) \o EncodeTables(doc, Tail(ks))

Encode(doc) == EncodePlain(doc) \o EncodeTables(doc, SortedKeys(TableKeys(doc)))

\* ------------------------------------------------------------ file system
\* A name is <<stem, extension>>; a path is a sequence of names.
TomlExt == ".toml"
HasTomlSuffix(name) == name[2] = TomlExt
THEMES_DIR == << <<"themes", "">> >>
SubDir == Append(THEMES_DIR, <<"sub", "">>)
Join(dir, name) == Append(dir, name)
Dir(path) == SubSeq(path, 1, Len(path) - 1)
DotDot == <<"..", "">>

ThemePath(stem) == Join(THEMES_DIR, <<stem, TomlExt>>)

\* ------------------------------------------------------------ the preview
NumColumns == 4
BoxSpacing == 2
BorderAllowance == 4

\* Go's integer division truncates toward zero.
GoDiv(a, b) == IF a >= 0 THEN a \div b ELSE -((-a) \div b)

NoPreview == [kind |-> "empty", scheme |-> "", contentWidth |-> 0, boxWidth |-> 0]

renderColorPreview(content, viewportWidth) ==
    IF ~content.valid
    THEN [kind |-> "parseError", scheme |-> content.scheme, contentWidth |-> 0, boxWidth |-> 0]
    ELSE LET contentWidth == viewportWidth - BorderAllowance
         IN  [kind |-> "preview", scheme |-> content.scheme,
              contentWidth |-> contentWidth,
              boxWidth |-> GoDiv(contentWidth - (NumColumns - 1) * BoxSpacing, NumColumns)]

\* ------------------------------------------------------------ the inputs
OldPath == << <<"old", TomlExt>> >>

\* Config files the program may be started on.
FileEmpty == << >>
FileScalarGeneral ==
    <<KV("import", [l |-> <<OldPath>>]), Comment, KV("general", [s |-> "x"]),
      Header("window"), KV("font", [s |-> "serif"])>>
FileBoth ==
    <<KV("live_config_reload", [b |-> FALSE]), Comment,
      Header("window"), KV("import", [l |-> <<OldPath>>]),
      Header("general"), KV("import", [l |-> <<OldPath>>]), KV("font", [s |-> "mono"])>>
FileGarbage == <<Garbage>>

InitialFiles ==
    {[exists |-> TRUE, writable |-> TRUE, lines |-> ls] :
        ls \in {FileEmpty, FileScalarGeneral, FileBoth, FileGarbage}}
    \cup {[exists |-> FALSE, writable |-> TRUE, lines |-> << >>]}

\* A child of a directory: its name, whether it is a directory, and for a
\* file whether it can be read and whether it parses as a color scheme.
Child(stem, ext, isDir, mode) == [name |-> <<stem, ext>>, isDir |-> isDir, mode |-> mode]

\* The children a directory may hold, sorted by file name as os.ReadDir
\* returns them.
ChildPool ==
    <<Child("a", TomlExt, FALSE, "ok"), Child("c", TomlExt, FALSE, "unreadable"),
      Child("d", TomlExt, TRUE, "dir"), Child("notes", ".txt", FALSE, "ok"),
      Child("sub", "", TRUE, "dir"), Child("z", TomlExt, FALSE, "malformed")>>

RECURSIVE PickChildren(_, _)
PickChildren(S, i) ==
    IF i > Len(ChildPool) THEN << >>
    ELSE IF i \in S THEN <<ChildPool[i]>> \o PickChildren(S, i + 1)
         ELSE PickChildren(S, i + 1)

\* Every directory content of at most MaxChildren children.
Listings ==
    {PickChildren(S, 1) : S \in {T \in SUBSET (1..Len(ChildPool)) : Cardinality(T) <= MaxChildren}}

\* Listings of the themes directory used by the interactive runs, in the
\* order os.ReadDir returns them (sorted by file name).
RootListings ==
    { <<Child("a", TomlExt, FALSE, "ok"), Child("sub", "", TRUE, "dir"),
        Child("z", TomlExt, FALSE, "malformed")>>,
      <<Child("c", TomlExt, FALSE, "unreadable"), Child("d", TomlExt, TRUE, "dir"),
        Child("notes", ".txt", FALSE, "ok")>>,
      << >> }

Sizes == {[Width |-> 9, Height |-> 5], [Width |-> 40, Height |-> 12]}

QuitKeys == {"ctrl+c", "q"}
EnterKeys == {"enter"}
MoveKeys == {"up", "down", "k", "j"}
NextPageKeys == {"right", "pgdown", "l"}
PrevPageKeys == {"left", "pgup", "h"}
FilterKeys == {"/"}
OtherKeys == {"g", "G", "f", "x"}
Keys == QuitKeys \cup EnterKeys \cup MoveKeys \cup NextPageKeys \cup PrevPageKeys
            \cup FilterKeys \cup OtherKeys

\* ---------------------------------------------------------------- state
VARIABLES
    pc,            \* "main", "backedUp", "running", "shutdown", "exited", "exit1"
    file,          \* the file at CONFIG_FILE
    fsReadable,    \* whether fsDir can be read
    fsDir,         \* the directory the listing command is given
    fsChildren,    \* its children in directory-read order
    originalToml,  \* model.originalToml
    tomlBackup,    \* model.tomlBackup
    items,         \* model.items, also the list widget's items
    listPage,      \* list widget: paginator page
    listCursor,    \* list widget: cursor within the page
    lastSelected,  \* model.lastSelected
    preview,       \* content of model.viewport
    vpSize,        \* width and height of model.viewport
    listSize,      \* width and height of model.list
    windowSize,    \* model.windowSize
    ready,         \* model.ready
    err,           \* model.err, "" for nil
    loadCmd,       \* the loadFiles command: "none", "pending", "handled"
    patches,       \* the config-patch commands issued so far
    quitCmd,       \* the tea.Quit commands returned so far: the class of the
                   \* key, its number and the entry highlighted then
    lastMsg,       \* the message most recently handled by Update, whether
                   \* handleSelection evaluated the selection for it, and the
                   \* theme file it read
    nKeys, nResizes, nExternal

vars == <<pc, file, fsReadable, fsDir, fsChildren, originalToml, tomlBackup, items,
          listPage, listCursor, lastSelected, preview, vpSize, listSize, windowSize,
          ready, err, loadCmd, patches, quitCmd, lastMsg,
          nKeys, nResizes, nExternal>>

fsVars == <<fsReadable, fsDir, fsChildren>>
backupVars == <<originalToml, tomlBackup>>
listVars == <<items, listPage, listCursor>>
sizeVars == <<vpSize, listSize, windowSize, ready>>
countVars == <<nKeys, nResizes, nExternal>>

NoErr == ""
NoMsg == [type |-> "none", class |-> "none", evaluated |-> FALSE, read |-> << >>]

\* initialModel, before main calls backupConfig.
initialModel ==
    /\ items = << >>
    /\ listPage = 0
    /\ listCursor = 0
    /\ lastSelected = -1
    /\ preview = NoPreview
    /\ vpSize = [Width |-> 0, Height |-> 0]
    /\ listSize = [Width |-> 0, Height |-> 0]
    /\ windowSize = [Width |-> 0, Height |-> 0]
    /\ ready = FALSE
    /\ err = NoErr
    /\ originalToml = << >>
    /\ tomlBackup = EmptyTable

Init ==
    /\ pc = "main"
    /\ file \in InitialFiles
    /\ fsDir = THEMES_DIR
    /\ \E r \in BOOLEAN :
          /\ fsReadable = r
          /\ fsChildren \in (IF r THEN RootListings ELSE {<< >>})
    /\ initialModel
    /\ loadCmd = "none"
    /\ patches = << >>
    /\ quitCmd = << >>
    /\ lastMsg = NoMsg
    /\ nKeys = 0
    /\ nResizes = 0
    /\ nExternal = 0

\* ------------------------------------------------------------- startup
\* Variant: main goes on when backupConfig fails.
backupConfigIgnored ==
    /\ pc = "main"
    /\ LET config == Unmarshal(file.lines)
       IN  IF file.exists /\ config.ok
           THEN /\ originalToml' = file.lines
                /\ tomlBackup' = config.doc
           ELSE UNCHANGED backupVars
    /\ pc' = "backedUp"
    /\ UNCHANGED <<file, fsVars, listVars, lastSelected, preview, sizeVars, err, loadCmd,
                   patches, quitCmd, lastMsg, countVars>>

\* main: backupConfig, exit code 1 when it fails.
backupConfig ==
    /\ pc = "main"
    /\ LET config == Unmarshal(file.lines)
       IN  IF file.exists /\ config.ok
           THEN /\ originalToml' = file.lines
                /\ tomlBackup' = config.doc
                /\ pc' = "backedUp"
           ELSE /\ pc' = "exit1"
                /\ UNCHANGED backupVars
    /\ UNCHANGED <<file, fsVars, listVars, lastSelected, preview, sizeVars, err, loadCmd,
                   patches, quitCmd, lastMsg, countVars>>

\* model.Init: create the config file when it is missing (os.Create is taken
\* to succeed), issue loadFiles.
ModelInit ==
    /\ pc = "backedUp"
    /\ file' = IF file.exists THEN file
               ELSE [exists |-> TRUE, writable |-> TRUE, lines |-> << >>]
    /\ loadCmd' = "pending"
    /\ pc' = "running"
    /\ UNCHANGED <<fsVars, backupVars, listVars, lastSelected, preview, sizeVars, err,
                   patches, quitCmd, lastMsg, countVars>>

\* ----------------------------------------------------------- loadFiles
Item(title, path, isDirectory) == [title |-> title, path |-> path, isDirectory |-> isDirectory]

\* Variant: every child is listed.
RECURSIVE ListChildrenAll(_, _)
ListChildrenAll(dir, children) ==
    IF children = << >> THEN << >>
    ELSE LET child == Head(children)
         IN  <<Item(child.name, Join(dir, child.name), child.isDir)>>
                 \o ListChildrenAll(dir, Tail(children))

RECURSIVE ListChildren(_, _)
ListChildren(dir, children) ==
    IF children = << >> THEN << >>
    ELSE LET child == Head(children)
         IN  (IF child.isDir \/ HasTomlSuffix(child.name)
              THEN <<Item(child.name, Join(dir, child.name), child.isDir)>>
              ELSE << >>) \o ListChildren(dir, Tail(children))

\* The message loadFiles(dir) produces when it runs.
loadFiles(dir, readable, children) ==
    IF ~readable THEN [items |-> << >>, err |-> "readdir"]
    ELSE [items |-> (IF dir # THEMES_DIR THEN <<Item(DotDot, Dir(dir), TRUE)>> ELSE << >>)
                        \o ListChildren(dir, children),
          err |-> NoErr]

\* ------------------------------------------------------ the list widget
Min(a, b) == IF a < b THEN a ELSE b
Max(a, b) == IF a > b THEN a ELSE b

ListPos(page, cursor) == [page |-> page, cursor |-> cursor]

TotalPages(n) == IF n < 1 THEN 1 ELSE (n + PerPage - 1) \div PerPage
OnLastPage(page, n) == page = TotalPages(n) - 1
ItemsOnPage(page, n) ==
    IF n < 1 THEN 0 ELSE Min(page * PerPage + PerPage, n) - page * PerPage

IndexOf(pos) == pos.page * PerPage + pos.cursor
Index == IndexOf(ListPos(listPage, listCursor))

\* list.SelectedItem: no item when the index is outside the items.
SelectedItemAt(its, idx) ==
    IF idx < 0 \/ Len(its) = 0 \/ Len(its) <= idx THEN << >> ELSE <<its[idx + 1]>>

PaginatorNextPage(pos, n) ==
    IF OnLastPage(pos.page, n) THEN pos ELSE ListPos(pos.page + 1, pos.cursor)
PaginatorPrevPage(pos) ==
    IF pos.page > 0 THEN ListPos(pos.page - 1, pos.cursor) ELSE pos

CursorUp(pos, n) ==
    IF pos.cursor - 1 < 0 /\ pos.page = 0 THEN ListPos(0, 0)
    ELSE IF pos.cursor - 1 >= 0 THEN ListPos(pos.page, pos.cursor - 1)
    ELSE ListPos(pos.page - 1, ItemsOnPage(pos.page - 1, n) - 1)

CursorDown(pos, n) ==
    LET onPage == ItemsOnPage(pos.page, n)
        c == pos.cursor + 1
    IN  IF c < onPage THEN ListPos(pos.page, c)
        ELSE IF ~OnLastPage(pos.page, n) THEN ListPos(pos.page + 1, 0)
        ELSE IF c > onPage THEN ListPos(pos.page, 0)
        ELSE ListPos(pos.page, Max(0, onPage - 1))

ClampCursor(pos, n) ==
    LET onPage == ItemsOnPage(pos.page, n)
    IN  IF pos.cursor > onPage - 1 THEN ListPos(pos.page, Max(0, onPage - 1)) ELSE pos

\* list.Update for a key message while browsing.
ListUpdate(key, pos, n) ==
    ClampCursor(
        CASE key \in {"up", "k"} -> CursorUp(pos, n)
          [] key \in {"down", "j"} -> CursorDown(pos, n)
          [] key = "g" -> ListPos(0, 0)
          [] key = "G" -> ListPos(TotalPages(n) - 1, Max(0, ItemsOnPage(TotalPages(n) - 1, n) - 1))
          [] key = "f" -> PaginatorNextPage(pos, n)
          [] OTHER -> pos,
        n)

\* ------------------------------------------------------ handleSelection
NoContent == [scheme |-> "", valid |-> FALSE]

\* os.ReadFile of a theme file.
ReadThemeFile(path) ==
    LET cs == {i \in 1..Len(fsChildren) : Join(fsDir, fsChildren[i].name) = path}
    IN  IF cs = {} THEN [ok |-> FALSE, content |-> NoContent]
        ELSE LET c == fsChildren[CHOOSE i \in cs : TRUE]
             IN  IF c.isDir \/ c.mode = "unreadable" THEN [ok |-> FALSE, content |-> NoContent]
                 ELSE [ok |-> TRUE, content |-> [scheme |-> c.name[1], valid |-> c.mode = "ok"]]

Selection(last, prev, e, cmd, read, evaluated) ==
    [lastSelected |-> last, preview |-> prev, err |-> e, cmd |-> cmd, read |-> read,
     evaluated |-> evaluated]

\* Variant: a theme file that does not parse is treated as a failed read.
handleSelectionRejectsMalformed(idx, its, last, prev, e, width) ==
    IF last = idx /\ last # -1 THEN Selection(last, prev, e, << >>, << >>, FALSE)
    ELSE LET sel == SelectedItemAt(its, idx)
         IN  IF sel # << >> /\ ~sel[1].isDirectory /\ HasTomlSuffix(sel[1].path[Len(sel[1].path)])
             THEN LET r == ReadThemeFile(sel[1].path)
                  IN  IF ~r.ok \/ ~r.content.valid
                      THEN Selection(idx, prev, "readfile", << >>, <<sel[1].path>>, TRUE)
                      ELSE Selection(idx, renderColorPreview(r.content, width), e,
                                     <<sel[1].path>>, <<sel[1].path>>, TRUE)
             ELSE Selection(idx, prev, e, << >>, << >>, TRUE)

\* Variant: a selection that is not a theme file empties the viewport.
handleSelectionClearsPreview(idx, its, last, prev, e, width) ==
    IF last = idx /\ last # -1 THEN Selection(last, prev, e, << >>, << >>, FALSE)
    ELSE LET sel == SelectedItemAt(its, idx)
         IN  IF sel # << >> /\ ~sel[1].isDirectory /\ HasTomlSuffix(sel[1].path[Len(sel[1].path)])
             THEN LET r == ReadThemeFile(sel[1].path)
                  IN  IF ~r.ok
                      THEN Selection(idx, prev, "readfile", << >>, <<sel[1].path>>, TRUE)
                      ELSE Selection(idx, renderColorPreview(r.content, width), e,
                                     <<sel[1].path>>, <<sel[1].path>>, TRUE)
             ELSE Selection(idx, NoPreview, e, << >>, << >>, TRUE)

\* handleSelection on a model whose list is at index idx: the new
\* lastSelected, viewport content and err, the command it returns (cmd: no
\* path, or the path to patch in) and the theme file it read.
handleSelection(idx, its, last, prev, e, width) ==
    IF last = idx /\ last # -1 THEN Selection(last, prev, e, << >>, << >>, FALSE)
    ELSE LET sel == SelectedItemAt(its, idx)
         IN  IF sel # << >> /\ ~sel[1].isDirectory /\ HasTomlSuffix(sel[1].path[Len(sel[1].path)])
             THEN LET r == ReadThemeFile(sel[1].path)
                  IN  IF ~r.ok
                      THEN Selection(idx, prev, "readfile", << >>, <<sel[1].path>>, TRUE)
                      ELSE Selection(idx, renderColorPreview(r.content, width), e,
                                     <<sel[1].path>>, <<sel[1].path>>, TRUE)
             ELSE Selection(idx, prev, e, << >>, << >>, TRUE)

\* The command handleSelection returns, once handed to the runtime.
NewPatch(path) ==
    [path |-> path, st |-> "issued", content |-> << >>, buf |-> << >>, err |-> NoErr,
     afterQuit |-> quitCmd # << >>]

IssuePatches(cmd) == [i \in 1..Len(cmd) |-> NewPatch(cmd[i])]

\* ------------------------------------------------- the config file on disk
\* os.WriteFile: creates the file when missing, fails on a read-only file.
WriteFile(f, lines) ==
    IF f.exists /\ ~f.writable THEN [ok |-> FALSE, file |-> f]
    ELSE [ok |-> TRUE,
          file |-> [exists |-> TRUE, writable |-> TRUE, lines |-> lines]]

\* Variant: the keys always go to the top level.
SetThemeKeysTopLevel(config, selectedPath) ==
    Put(Put(config, "live_config_reload", [b |-> TRUE]), "import", [l |-> <<selectedPath>>])

\* Variant: the path is added to the import list already there.
SetThemeKeysAppend(config, selectedPath) ==
    LET add(t) == Put(Put(t, "live_config_reload", [b |-> TRUE]), "import",
                      IF "import" \in DOMAIN t /\ "l" \in DOMAIN t["import"]
                      THEN [l |-> Append(t["import"].l, selectedPath)]
                      ELSE [l |-> <<selectedPath>>])
    IN  IF "general" \in DOMAIN config /\ IsTable(config["general"])
        THEN Put(config, "general", [tb |-> add(config["general"].tb)])
        ELSE add(config)

\* updateConfig, lines 300-310: where the two keys are set.
SetThemeKeys(config, selectedPath) ==
    IF "general" \in DOMAIN config /\ IsTable(config["general"])
    THEN Put(config, "general",
             [tb |-> Put(Put(config["general"].tb, "live_config_reload", [b |-> TRUE]),
                         "import", [l |-> <<selectedPath>>])])
    ELSE Put(Put(config, "live_config_reload", [b |-> TRUE]),
             "import", [l |-> <<selectedPath>>])

\* updateConfig, lines 295-317: from the bytes read to the bytes to write.
PatchedBytes(content, selectedPath) ==
    LET parsed == Unmarshal(content)
        config == IF parsed.isNil THEN EmptyTable ELSE parsed.doc
    IN  Encode(SetThemeKeys(config, selectedPath))

\* Variant: restores by encoding the parsed backup.
restoreConfigFromParsed(f) == WriteFile(f, Encode(tomlBackup))

restoreConfig(f) == WriteFile(f, originalToml)

Alive == pc \in {"running", "shutdown"}

\* Variant: the patch starts from the bytes backed up at startup.
updateConfigReadBackup(i) ==
    /\ Alive
    /\ patches[i].st = "issued"
    /\ patches' = [patches EXCEPT ![i] = [@ EXCEPT !.st = "read", !.content = originalToml]]
    /\ UNCHANGED <<pc, file, fsVars, backupVars, listVars, lastSelected, preview, sizeVars,
                   err, loadCmd, quitCmd, lastMsg, countVars>>

\* updateConfig in a command's goroutine, first half: read and parse.
updateConfigRead(i) ==
    /\ Alive
    /\ patches[i].st = "issued"
    /\ patches' = [patches EXCEPT ![i] =
          IF ~file.exists THEN [@ EXCEPT !.st = "sent", !.err = "read"]
          ELSE IF ~Unmarshal(file.lines).ok
               THEN [@ EXCEPT !.st = "sent", !.err = "parse", !.content = file.lines]
               ELSE [@ EXCEPT !.st = "read", !.content = file.lines]]
    /\ UNCHANGED <<pc, file, fsVars, backupVars, listVars, lastSelected, preview, sizeVars,
                   err, loadCmd, quitCmd, lastMsg, countVars>>

\* updateConfig, second half: set the keys, encode, write; the command then
\* sends its themeSelectedMsg.
updateConfigWrite(i) ==
    /\ Alive
    /\ patches[i].st = "read"
    /\ LET buf == PatchedBytes(patches[i].content, patches[i].path)
           w == WriteFile(file, buf)
       IN  /\ file' = w.file
           /\ patches' = [patches EXCEPT ![i] =
                  [@ EXCEPT !.st = "sent", !.buf = buf,
                            !.err = IF w.ok THEN NoErr ELSE "write"]]
    /\ UNCHANGED <<pc, fsVars, backupVars, listVars, lastSelected, preview, sizeVars,
                   err, loadCmd, quitCmd, lastMsg, countVars>>

\* ------------------------------------------------------------- Update
KeyMsg(class, sel) ==
    [type |-> "key", class |-> class, evaluated |-> sel.evaluated, read |-> sel.read]

\* tea.Quit as returned for a key of the given class.
Quit(class, pos) ==
    [class |-> class, key |-> nKeys + 1, item |-> SelectedItemAt(items, IndexOf(pos))]

NoSelection == Selection(lastSelected, preview, err, << >>, << >>, FALSE)

\* case tea.WindowSizeMsg, for at most maxResizes such messages in a run.
WindowSizeMsg(maxResizes) ==
    /\ pc = "running"
    /\ nResizes < maxResizes
    /\ \E msg \in Sizes :
          /\ windowSize' = msg
          /\ IF ~ready
             THEN /\ vpSize' = [Width |-> GoDiv(msg.Width, 2), Height |-> msg.Height]
                  /\ preview' = NoPreview
                  /\ listSize' = [Width |-> GoDiv(msg.Width, 2), Height |-> msg.Height]
                  /\ ready' = TRUE
             ELSE UNCHANGED <<vpSize, preview, listSize, ready>>
    /\ nResizes' = nResizes + 1
    /\ lastMsg' = [NoMsg EXCEPT !.type = "size"]
    /\ UNCHANGED <<pc, file, fsVars, backupVars, listVars, lastSelected, err, loadCmd,
                   patches, quitCmd, nKeys, nExternal>>

UpdateWindowSize == WindowSizeMsg(MaxResizes)

\* case filesLoadedMsg: the message of the pending loadFiles command, which
\* depends on nothing the program changes, is produced and handled.
UpdateFilesLoaded ==
    /\ pc = "running"
    /\ loadCmd = "pending"
    /\ loadCmd' = "handled"
    /\ LET msg == loadFiles(fsDir, fsReadable, fsChildren) IN
       IF msg.err # NoErr
       THEN /\ err' = msg.err
            /\ lastMsg' = [NoMsg EXCEPT !.type = "files"]
            /\ UNCHANGED <<listVars, lastSelected, preview, patches>>
       ELSE LET pos == ClampCursor(ListPos(Min(listPage, TotalPages(Len(msg.items)) - 1),
                                           listCursor), Len(msg.items))
                sel == handleSelection(IndexOf(pos), msg.items, lastSelected, preview,
                                       err, vpSize.Width)
            IN  /\ items' = msg.items
                /\ listPage' = pos.page
                /\ listCursor' = pos.cursor
                /\ lastSelected' = sel.lastSelected
                /\ preview' = sel.preview
                /\ err' = sel.err
                /\ patches' = patches \o IssuePatches(sel.cmd)
                /\ lastMsg' = [type |-> "files", class |-> "none", evaluated |-> sel.evaluated,
                               read |-> sel.read]
    /\ UNCHANGED <<pc, file, fsVars, backupVars, sizeVars, quitCmd, countVars>>

\* Variant: the quit keys return tea.Quit without restoring.
UpdateQuitKeyNoRestore ==
    /\ pc = "running"
    /\ nKeys < MaxKeys
    /\ \E key \in QuitKeys :
          quitCmd' = Append(quitCmd, Quit("quit", ListPos(listPage, listCursor)))
    /\ lastMsg' = KeyMsg("quit", NoSelection)
    /\ nKeys' = nKeys + 1
    /\ UNCHANGED <<pc, file, fsVars, backupVars, listVars, lastSelected, preview, sizeVars,
                   err, loadCmd, patches, nResizes, nExternal>>

\* case tea.KeyCtrlC.String(), "q"
UpdateQuitKey ==
    /\ pc = "running"
    /\ nKeys < MaxKeys
    /\ \E key \in QuitKeys :
          LET w == restoreConfig(file)
          IN  /\ file' = w.file
              /\ err' = IF w.ok THEN err ELSE "restore"
    /\ quitCmd' = Append(quitCmd, Quit("quit", ListPos(listPage, listCursor)))
    /\ lastMsg' = KeyMsg("quit", NoSelection)
    /\ nKeys' = nKeys + 1
    /\ UNCHANGED <<pc, fsVars, backupVars, listVars, lastSelected, preview, sizeVars,
                   loadCmd, patches, nResizes, nExternal>>

\* case tea.KeyEnter.String(): the commands collected in cmds are not returned.
UpdateEnterKey ==
    /\ pc = "running"
    /\ nKeys < MaxKeys
    /\ \E key \in EnterKeys :
          LET pos == ListUpdate(key, ListPos(listPage, listCursor), Len(items))
              sel == handleSelection(IndexOf(pos), items, lastSelected, preview, err,
                                     vpSize.Width)
          IN  /\ listPage' = pos.page
              /\ listCursor' = pos.cursor
              /\ lastSelected' = sel.lastSelected
              /\ preview' = sel.preview
              /\ err' = sel.err
              /\ lastMsg' = KeyMsg("enter", sel)
              /\ quitCmd' = Append(quitCmd, Quit("enter", pos))
    /\ nKeys' = nKeys + 1
    /\ UNCHANGED <<pc, file, fsVars, backupVars, items, sizeVars, loadCmd, patches,
                   nResizes, nExternal>>

\* A key after which Update evaluates the selection and returns its command.
SelectAt(class, pos) ==
    LET sel == handleSelection(IndexOf(pos), items, lastSelected, preview, err, vpSize.Width)
    IN  /\ listPage' = pos.page
        /\ listCursor' = pos.cursor
        /\ lastSelected' = sel.lastSelected
        /\ preview' = sel.preview
        /\ err' = sel.err
        /\ patches' = patches \o IssuePatches(sel.cmd)
        /\ lastMsg' = KeyMsg(class, sel)
        /\ nKeys' = nKeys + 1
        /\ UNCHANGED <<pc, file, fsVars, backupVars, items, sizeVars, loadCmd, quitCmd,
                       nResizes, nExternal>>

\* case tea.KeyUp.String(), tea.KeyDown.String(), "k", "j"
UpdateMoveKey ==
    /\ pc = "running"
    /\ nKeys < MaxKeys
    /\ \E key \in MoveKeys :
          SelectAt("move", ListUpdate(key, ListPos(listPage, listCursor), Len(items)))

\* case tea.KeyRight.String(), tea.KeyPgDown.String(), "l"
UpdateNextPageKey ==
    /\ pc = "running"
    /\ nKeys < MaxKeys
    /\ \E key \in NextPageKeys :
          SelectAt("page", PaginatorNextPage(ListPos(listPage, listCursor), Len(items)))

\* case tea.KeyLeft.String(), tea.KeyPgUp.String(), "h"
UpdatePrevPageKey ==
    /\ pc = "running"
    /\ nKeys < MaxKeys
    /\ \E key \in PrevPageKeys :
          SelectAt("page", PaginatorPrevPage(ListPos(listPage, listCursor)))

\* case "/": ShowFilter only reports a setting.
UpdateFilterKey ==
    /\ pc = "running"
    /\ nKeys < MaxKeys
    /\ \E key \in FilterKeys :
          lastMsg' = KeyMsg("filter", NoSelection)
    /\ nKeys' = nKeys + 1
    /\ UNCHANGED <<pc, file, fsVars, backupVars, listVars, lastSelected, preview, sizeVars,
                   err, loadCmd, patches, quitCmd, nResizes, nExternal>>

\* default: the key goes to the list widget, the selection is not evaluated.
UpdateOtherKey ==
    /\ pc = "running"
    /\ nKeys < MaxKeys
    /\ \E key \in OtherKeys :
          LET pos == ListUpdate(key, ListPos(listPage, listCursor), Len(items))
          IN  /\ listPage' = pos.page
              /\ listCursor' = pos.cursor
              /\ lastMsg' = KeyMsg("other", NoSelection)
    /\ nKeys' = nKeys + 1
    /\ UNCHANGED <<pc, file, fsVars, backupVars, items, lastSelected, preview, sizeVars,
                   err, loadCmd, patches, quitCmd, nResizes, nExternal>>

\* A themeSelectedMsg reaches Update, which has no case for it.
UpdateThemeSelected(i) ==
    /\ pc = "running"
    /\ patches[i].st = "sent"
    /\ patches' = [patches EXCEPT ![i].st = "handled"]
    /\ lastMsg' = [NoMsg EXCEPT !.type = "theme"]
    /\ UNCHANGED <<pc, file, fsVars, backupVars, listVars, lastSelected, preview, sizeVars,
                   err, loadCmd, quitCmd, countVars>>

\* The QuitMsg of tea.Quit ends the event loop; Run returns.
QuitMsg ==
    /\ pc = "running"
    /\ quitCmd # << >>
    /\ pc' = "shutdown"
    /\ UNCHANGED <<file, fsVars, backupVars, listVars, lastSelected, preview, sizeVars, err,
                   loadCmd, patches, quitCmd, lastMsg, countVars>>

\* main returns: the process and the goroutines of its commands are gone.
ProcessExit ==
    /\ pc = "shutdown"
    /\ pc' = "exited"
    /\ UNCHANGED <<file, fsVars, backupVars, listVars, lastSelected, preview, sizeVars, err,
                   loadCmd, patches, quitCmd, lastMsg, countVars>>

\* ------------------------------------------------------ other programs
\* An editor sets the top-level key font.
RECURSIVE EditFont(_, _)
EditFont(lines, top) ==
    IF lines = << >> THEN << >>
    ELSE LET ln == Head(lines)
         IN  IF top /\ ln.k = "kv" /\ ln.key = "font"
             THEN EditFont(Tail(lines), top)
             ELSE <<ln>> \o EditFont(Tail(lines), top /\ ln.k # "header")

\* What another program may do to the file: damage it, edit it, or take
\* away the permission to write it.
ExternalContents(f) ==
    {[f EXCEPT !.lines = <<Garbage>>],
     [f EXCEPT !.lines = <<KV("font", [s |-> "ext"])>> \o EditFont(f.lines, TRUE)],
     [f EXCEPT !.writable = FALSE]}

ExternalWrite ==
    /\ pc = "running"
    /\ nExternal < MaxExternalWrites
    /\ file' \in ExternalContents(file) \ {file}
    /\ nExternal' = nExternal + 1
    /\ UNCHANGED <<pc, fsVars, backupVars, listVars, lastSelected, preview, sizeVars, err,
                   loadCmd, patches, quitCmd, lastMsg, nKeys, nResizes>>

\* ------------------------------------------------------ specification
Next ==
    \/ backupConfig
    \/ ModelInit
    \/ UpdateWindowSize
    \/ UpdateFilesLoaded
    \/ UpdateQuitKey
    \/ UpdateEnterKey
    \/ UpdateMoveKey
    \/ UpdateNextPageKey
    \/ UpdatePrevPageKey
    \/ UpdateFilterKey
    \/ UpdateOtherKey
    \/ \E i \in 1..Len(patches) : updateConfigRead(i)
    \/ \E i \in 1..Len(patches) : updateConfigWrite(i)
    \/ \E i \in 1..Len(patches) : UpdateThemeSelected(i)
    \/ QuitMsg
    \/ ProcessExit
    \/ ExternalWrite

Spec == Init /\ [][Next]_vars

\* updateConfig on its own: after startup, any sequence of calls with any
\* of the paths, each call in its own goroutine, next to another writer.
PatchPaths == {ThemePath("a"), ThemePath("z")}

CallUpdateConfig ==
    /\ pc = "running"
    /\ Len(patches) < MaxCalls
    /\ \E selectedPath \in PatchPaths : patches' = Append(patches, NewPatch(selectedPath))
    /\ UNCHANGED <<pc, file, fsVars, backupVars, listVars, lastSelected, preview, sizeVars,
                   err, loadCmd, quitCmd, lastMsg, countVars>>

NextPatch ==
    \/ backupConfig
    \/ ModelInit
    \/ CallUpdateConfig
    \/ \E i \in 1..Len(patches) : updateConfigRead(i)
    \/ \E i \in 1..Len(patches) : updateConfigWrite(i)
    \/ ExternalWrite

\* loadFiles on its own: the command of any directory with any content is
\* run and its message kept in items and err.
InitLoad ==
    /\ pc = "listing"
    /\ file = [exists |-> TRUE, writable |-> TRUE, lines |-> << >>]
    /\ fsDir \in {THEMES_DIR, SubDir}
    /\ \E r \in BOOLEAN :
          /\ fsReadable = r
          /\ fsChildren \in (IF r THEN Listings ELSE {<< >>})
    /\ initialModel
    /\ loadCmd = "pending"
    /\ patches = << >>
    /\ quitCmd = << >>
    /\ lastMsg = NoMsg
    /\ nKeys = 0
    /\ nResizes = 0
    /\ nExternal = 0

CallLoadFiles ==
    /\ pc = "listing"
    /\ loadCmd = "pending"
    /\ LET msg == loadFiles(fsDir, fsReadable, fsChildren)
       IN  /\ items' = msg.items
           /\ err' = msg.err
    /\ loadCmd' = "handled"
    /\ UNCHANGED <<pc, file, fsVars, backupVars, listPage, listCursor, lastSelected, preview,
                   sizeVars, patches, quitCmd, lastMsg, countVars>>

NextLoad == CallLoadFiles

SpecLoadFiles == InitLoad /\ [][NextLoad]_vars

InitPatch == Init /\ fsReadable /\ fsChildren = << >>

SpecPatch == InitPatch /\ [][NextPatch]_vars

\* The layout on its own: startup, the list load, window-size messages and
\* the keys that move the highlight, without the patch goroutines.
UpdateWindowSizeRepeated == WindowSizeMsg(MaxLayoutResizes)

NextLayout ==
    \/ backupConfig
    \/ ModelInit
    \/ UpdateWindowSizeRepeated
    \/ UpdateFilesLoaded
    \/ UpdateMoveKey
    \/ UpdateNextPageKey
    \/ UpdatePrevPageKey
    \/ UpdateOtherKey

SpecLayout == Init /\ [][NextLayout]_vars

\* handleSelection on its own: one call on a model holding the listing of
\* any directory, at any list position, with any recorded index, viewport
\* content and width.
OldPreview == renderColorPreview([scheme |-> "old", valid |-> TRUE], 20)

InitSelect ==
    /\ pc = "selecting"
    /\ file = [exists |-> TRUE, writable |-> TRUE, lines |-> << >>]
    /\ fsDir \in {THEMES_DIR, SubDir}
    /\ fsReadable = TRUE
    /\ fsChildren \in Listings
    /\ items = loadFiles(fsDir, fsReadable, fsChildren).items
    /\ listPage \in 0..(TotalPages(Len(items)) - 1)
    /\ listCursor \in 0..(PerPage - 1)
    /\ lastSelected \in -1..Len(items)
    /\ preview \in {NoPreview, OldPreview}
    /\ \E msg \in Sizes :
          /\ windowSize = msg
          /\ vpSize = [Width |-> GoDiv(msg.Width, 2), Height |-> msg.Height]
          /\ listSize = [Width |-> GoDiv(msg.Width, 2), Height |-> msg.Height]
    /\ ready = TRUE
    /\ err = NoErr
    /\ originalToml = << >>
    /\ tomlBackup = EmptyTable
    /\ loadCmd = "handled"
    /\ patches = << >>
    /\ quitCmd = << >>
    /\ lastMsg = NoMsg
    /\ nKeys = 0
    /\ nResizes = 0
    /\ nExternal = 0

CallHandleSelection ==
    /\ pc = "selecting"
    /\ LET sel == handleSelection(Index, items, lastSelected, preview, err, vpSize.Width)
       IN  /\ lastSelected' = sel.lastSelected
           /\ preview' = sel.preview
           /\ err' = sel.err
           /\ patches' = patches \o IssuePatches(sel.cmd)
           /\ lastMsg' = [type |-> "none", class |-> "none", evaluated |-> sel.evaluated,
                          read |-> sel.read]
    /\ pc' = "selected"
    /\ UNCHANGED <<file, fsVars, backupVars, listVars, sizeVars, loadCmd, quitCmd, countVars>>

NextSelect == CallHandleSelection

SpecSelect == InitSelect /\ [][NextSelect]_vars

\* ------------------------------------------------------------ properties
Terminated == pc \in {"shutdown", "exited"}
Finished(p) == p.st \in {"sent", "handled"}
Succeeded(p) == Finished(p) /\ p.err = NoErr
QuitKeyHandled == \E k \in 1..Len(quitCmd) : quitCmd[k].class = "quit"
NumRestores == Cardinality({k \in 1..Len(quitCmd) : quitCmd[k].class = "quit"})
QuitKeyStep == nKeys' = nKeys + 1 /\ lastMsg'.class = "quit"
EnterKeyStep == nKeys' = nKeys + 1 /\ lastMsg'.class = "enter"

\* C1: in a run in which a quit key was handled, once the program has
\* terminated and every config patch issued before the quit has finished,
\* the config file holds exactly the bytes backupConfig captured - also when
\* a patch was still pending while the quit key was handled.  (Stated for
\* runs without another writer and without a patch issued after the quit.)
C1_QuitLeavesBackup ==
    (/\ Terminated
     /\ QuitKeyHandled
     /\ nExternal = 0
     /\ \A i \in 1..Len(patches) : ~patches[i].afterQuit /\ Finished(patches[i]))
    => (file.exists /\ file.lines = originalToml)

\* C2: whatever patches completed before, a restoreConfig call leaves the
\* file holding the bytes backupConfig captured, and so does a second one.
C2_RestoreWritesBackup ==
    [][(QuitKeyStep /\ file.writable) => (file'.exists /\ file'.lines = originalToml)]_vars

\* C2 witness: restoreConfig has run twice after a patch that changed the
\* file completed, and the file holds the captured bytes.
C2_Witness ==
    /\ NumRestores = 2
    /\ nExternal = 0
    /\ \E i \in 1..Len(patches) : Succeeded(patches[i]) /\ patches[i].buf # originalToml
    /\ \A i \in 1..Len(patches) : Finished(patches[i])
    /\ originalToml # Encode(tomlBackup)
    /\ file.lines = originalToml

\* C3 as claimed: on every exit, the enter key's included, the config file
\* has been restored before the program terminates.
C3_EveryExitRestores == Terminated => NumRestores > 0

\* C3 amended: a quit key ('q', ctrl+c) writes the backup to the config file
\* when it is handled (the write succeeding) and returns tea.Quit; the enter
\* key returns tea.Quit without writing the file; the event loop ends only
\* after a tea.Quit was returned, so a quit key's restore precedes the
\* termination it triggers.
C3_QuitKeyRestoresEnterDoesNot ==
    [][/\ QuitKeyStep => /\ Len(quitCmd') = Len(quitCmd) + 1
                         /\ file.writable => (file'.exists /\ file'.lines = originalToml)
       /\ EnterKeyStep => /\ Len(quitCmd') = Len(quitCmd) + 1
                          /\ file' = file
       /\ (pc = "running" /\ pc' = "shutdown") => quitCmd # << >>]_vars

\* C3 witness: the program has terminated after a quit key that found the
\* file patched and restored it.
C3_Witness ==
    /\ Terminated
    /\ NumRestores = 1
    /\ \E i \in 1..Len(patches) : Succeeded(patches[i]) /\ ~patches[i].afterQuit
    /\ file.lines = originalToml

\* What a patch read and what it wrote.
HasGeneralTable(doc) == "general" \in DOMAIN doc /\ IsTable(doc["general"])
ReadStep(i) == patches[i].st = "issued" /\ patches'[i].st # "issued"
WriteStep(i) == patches[i].st = "read" /\ patches'[i].st = "sent" /\ patches'[i].err = NoErr
WrittenKeys == {"live_config_reload", "import"}
HasThemeKeys(t, path) ==
    /\ WrittenKeys \subseteq DOMAIN t
    /\ t["live_config_reload"] = [b |-> TRUE]
    /\ t["import"] = [l |-> <<path>>]
SameAt(t1, t2, ks) ==
    \A k \in ks : /\ (k \in DOMAIN t1) <=> (k \in DOMAIN t2)
                  /\ (k \in DOMAIN t1) => (t1[k] = t2[k])
SameExcept(t1, t2, ks) == SameAt(t1, t2, ((DOMAIN t1) \cup (DOMAIN t2)) \ ks)

\* C4: a successful updateConfig(p) leaves in the file, when the document it
\* read has a table "general", general.live_config_reload = true and
\* general.import = [p] with the top-level live_config_reload and import as
\* they were read; otherwise top-level live_config_reload = true and
\* import = [p].  import has exactly the one element.
C4_KeysPlacedByGeneral ==
    [][\A i \in 1..Len(patches) : WriteStep(i) =>
          LET d == Unmarshal(patches[i].content).doc
              out == Unmarshal(file'.lines)
          IN  /\ out.ok
              /\ IF HasGeneralTable(d)
                 THEN /\ HasGeneralTable(out.doc)
                      /\ HasThemeKeys(out.doc["general"].tb, patches[i].path)
                      /\ SameAt(d, out.doc, WrittenKeys)
                 ELSE HasThemeKeys(out.doc, patches[i].path)]_vars

\* C4 witness: a patch that read a document with a table "general", an import
\* list in it and a top-level live_config_reload = false has written the file.
C4_Witness ==
    \E i \in 1..Len(patches) :
        LET d == Unmarshal(patches[i].content).doc
        IN  /\ Succeeded(patches[i])
            /\ file.lines = patches[i].buf
            /\ HasGeneralTable(d)
            /\ "import" \in DOMAIN d["general"].tb
            /\ d["general"].tb["import"] = [l |-> <<OldPath>>]
            /\ "live_config_reload" \in DOMAIN d
            /\ d["live_config_reload"] = [b |-> FALSE]

\* C5: updateConfig starts from the bytes on disk when it reads, and its
\* write leaves every key other than the written live_config_reload and
\* import, in "general" and elsewhere, with the value read.
C5_OtherKeysKept ==
    [][\A i \in 1..Len(patches) :
          /\ (ReadStep(i) /\ file.exists) => patches'[i].content = file.lines
          /\ WriteStep(i) =>
                LET d == Unmarshal(patches[i].content).doc
                    out == Unmarshal(file'.lines)
                IN  /\ out.ok
                    /\ IF HasGeneralTable(d)
                       THEN /\ SameExcept(d, out.doc, {"general"})
                            /\ HasGeneralTable(out.doc)
                            /\ SameExcept(d["general"].tb, out.doc["general"].tb, WrittenKeys)
                       ELSE SameExcept(d, out.doc, WrittenKeys)]_vars

\* C5 witness: the second patch has written the file, and the file holds the
\* font another program set after the first patch was written.
C5_Witness ==
    /\ Len(patches) >= 2
    /\ Succeeded(patches[1])
    /\ Succeeded(patches[2])
    /\ "font" \notin DOMAIN Unmarshal(patches[1].buf).doc
    /\ "window" \in DOMAIN Unmarshal(patches[1].buf).doc
    /\ file.lines = patches[2].buf
    /\ "font" \in DOMAIN Unmarshal(file.lines).doc
    /\ Unmarshal(file.lines).doc["font"] = [s |-> "ext"]
    /\ "window" \in DOMAIN Unmarshal(file.lines).doc

\* C6: when a patch with path p2 reads the very bytes a patch with path p1
\* wrote, the import list it writes is [p2] alone, and for p2 = p1 it writes
\* the same bytes again.
C6_SecondPathReplacesFirst ==
    \A i, j \in 1..Len(patches) :
        (/\ i # j
         /\ Succeeded(patches[i])
         /\ Succeeded(patches[j])
         /\ patches[j].content = patches[i].buf)
        => LET out == Unmarshal(patches[j].buf).doc
               at == IF HasGeneralTable(out) THEN out["general"].tb ELSE out
           IN  /\ "import" \in DOMAIN at
               /\ at["import"] = [l |-> <<patches[j].path>>]
               /\ (patches[i].path = patches[j].path) => (patches[j].buf = patches[i].buf)

\* C6 witness: the file holds what a patch wrote that read the bytes written
\* by a patch with another path, which had itself replaced an import list.
C6_Witness ==
    \E i, j \in 1..Len(patches) :
        /\ Succeeded(patches[i]) /\ Succeeded(patches[j])
        /\ patches[i].path # patches[j].path
        /\ patches[i].content = FileBoth
        /\ patches[j].content = patches[i].buf
        /\ file.lines = patches[j].buf

\* The entry highlighted, as a sequence of no or one item.
Highlighted == SelectedItemAt(items, Index)
IsThemeFile(it) == ~it.isDirectory /\ HasTomlSuffix(it.path[Len(it.path)])
ThemeApplied(lines, path) ==
    LET out == Unmarshal(lines)
    IN  /\ out.ok
        /\ HasThemeKeys(IF HasGeneralTable(out.doc) THEN out.doc["general"].tb ELSE out.doc, path)

\* C7: when enter was handled with a theme file highlighted, the program
\* ends with the config file holding live_config_reload = true and
\* import = [that file's path].  (Stated for runs in which enter was the last
\* key and the only one to quit, the theme file is readable, no error is
\* latched and no other program wrote the file.)
C7_EnterAppliesTheme ==
    (/\ pc = "exited"
     /\ nExternal = 0
     /\ err = NoErr
     /\ Len(quitCmd) = 1
     /\ quitCmd[1].class = "enter"
     /\ quitCmd[1].key = nKeys
     /\ quitCmd[1].item # << >>
     /\ IsThemeFile(quitCmd[1].item[1])
     /\ ReadThemeFile(quitCmd[1].item[1].path).ok)
    => (file.exists /\ ThemeApplied(file.lines, quitCmd[1].item[1].path))

\* C8: enter on a highlighted directory does not terminate the program but
\* issues the listing of that directory.
C8_EnterOnDirectoryDescends ==
    [][(EnterKeyStep /\ Highlighted # << >> /\ Highlighted[1].isDirectory)
          => (quitCmd' = quitCmd /\ pc' = "running" /\ loadCmd' = "pending")]_vars

\* A step in which handleSelection is called: on the loaded list and on the
\* enter, move and page keys.
HandleSelectionStep ==
    \/ nKeys' = nKeys + 1 /\ lastMsg'.class \in {"enter", "move", "page"}
    \/ loadCmd = "pending" /\ loadCmd' = "handled" /\ loadFiles(fsDir, fsReadable, fsChildren).err = NoErr

\* C10: an evaluation at the recorded index (not the first one) reads no
\* theme file, keeps the preview and issues no patch; any other evaluation
\* with a (readable) theme file highlighted reads it, sets the preview and
\* issues exactly one patch for its path; afterwards the recorded index is
\* the highlighted one.
C10_Debounce ==
    [][HandleSelectionStep =>
          LET sel == SelectedItemAt(items', Index')
          IN  /\ lastSelected' = Index'
              /\ (Index' = lastSelected /\ lastSelected # -1)
                    => (lastMsg'.read = << >> /\ preview' = preview /\ patches' = patches)
              /\ (/\ ~(Index' = lastSelected /\ lastSelected # -1)
                  /\ sel # << >>
                  /\ IsThemeFile(sel[1])
                  /\ ReadThemeFile(sel[1].path).ok)
                    => (/\ lastMsg'.read = <<sel[1].path>>
                        /\ preview' = renderColorPreview(ReadThemeFile(sel[1].path).content,
                                                         vpSize.Width)
                        /\ Len(patches') = Len(patches) + 1
                        /\ SubSeq(patches', 1, Len(patches)) = patches
                        /\ patches'[Len(patches')].path = sel[1].path
                        /\ patches'[Len(patches')].st = "issued")]_vars

\* The children loadFiles keeps: directories and names ending in ".toml".
KeptChildren == {i \in 1..Len(fsChildren) :
                    fsChildren[i].isDir \/ HasTomlSuffix(fsChildren[i].name)}

\* C9: the listing of a readable directory D is a ".." entry for D's parent
\* exactly when D is not THEMES_DIR, then one entry per child that is a
\* directory or named *.toml, in read order, marked as directory iff the
\* child is one; no other child appears.
C9_LoadFilesListing ==
    (pc = "listing" /\ loadCmd = "handled" /\ fsReadable) =>
        LET up == IF fsDir # THEMES_DIR THEN 1 ELSE 0
        IN  /\ err = NoErr
            /\ Len(items) = up + Cardinality(KeptChildren)
            /\ (up = 1) => (items[1] = Item(DotDot, Dir(fsDir), TRUE))
            /\ (fsDir = THEMES_DIR) => (\A j \in 1..Len(items) : items[j].title # DotDot)
            /\ \A i \in KeptChildren :
                  LET j == up + Cardinality({k \in KeptChildren : k <= i})
                  IN  /\ items[j].title = fsChildren[i].name
                      /\ items[j].path = Join(fsDir, fsChildren[i].name)
                      /\ items[j].isDirectory = fsChildren[i].isDir

\* C9 witness: a directory other than the root with a theme file, another
\* file and a directory has been listed as "..", the theme file, the directory.
C9_Witness ==
    /\ pc = "listing"
    /\ loadCmd = "handled"
    /\ fsDir = SubDir
    /\ fsChildren = <<Child("a", TomlExt, FALSE, "ok"), Child("notes", ".txt", FALSE, "ok"),
                      Child("sub", "", TRUE, "dir")>>
    /\ Len(items) = 3
    /\ items[1].title = DotDot
    /\ items[3].isDirectory

\* Steps of the event loop, read off the message counters.
FilesLoadedStep == loadCmd = "pending" /\ loadCmd' = "handled"
ThemeSelectedStep(i) == patches[i].st = "sent" /\ patches'[i].st = "handled"
NavigationKeyStep == nKeys' = nKeys + 1 /\ lastMsg'.class \in {"move", "page"}

\* C11: when a directory load, a theme-file read or a config patch has
\* failed, then after Update has handled the message carrying the failure
\* model.err holds that error and the event loop is still running - for the
\* filesLoadedMsg, for the read inside handleSelection and for the
\* themeSelectedMsg of the patch command alike.
C11_FailuresLatched ==
    [][/\ (FilesLoadedStep /\ loadFiles(fsDir, fsReadable, fsChildren).err # NoErr)
             => (err' = loadFiles(fsDir, fsReadable, fsChildren).err /\ pc' = "running")
       /\ (HandleSelectionStep /\ lastMsg'.read # << >> /\ ~ReadThemeFile(lastMsg'.read[1]).ok)
             => (err' = "readfile" /\ pc' = "running")
       /\ \A i \in 1..Len(patches) :
             (ThemeSelectedStep(i) /\ patches[i].err # NoErr)
                => (err' = patches[i].err /\ pc' = "running")]_vars

\* C12: started without a file at CONFIG_FILE, the program does not end in
\* the startup failure: the file is created empty, the event loop starts and
\* the listing of THEMES_DIR is issued.
C12_MissingFileCreated ==
    [][/\ (pc = "main" /\ ~file.exists) => pc' # "exit1"
       /\ (pc = "backedUp" /\ ~file.exists)
             => (/\ file'.exists
                 /\ file'.lines = << >>
                 /\ pc' = "running"
                 /\ loadCmd' = "pending")]_vars

\* C13: once model.err is set it stays set, and from then on a navigation
\* key or a filesLoadedMsg changes neither the highlighted entry nor the
\* preview nor the items, and issues no patch; a quit key still restores.
C13_ErrorFreezesUI ==
    [][err # NoErr =>
          /\ err' # NoErr
          /\ (NavigationKeyStep \/ FilesLoadedStep)
                => (/\ Index' = Index
                    /\ items' = items
                    /\ preview' = preview
                    /\ patches' = patches
                    /\ file' = file)
          /\ (QuitKeyStep /\ file.writable)
                => (file'.exists /\ file'.lines = originalToml)]_vars

\* C14: when backupConfig fails (no file, or a file that does not parse) the
\* process exits with code 1 without writing the file and takes no further
\* step; the event loop is entered only with the file's bytes captured in
\* originalToml, which nothing changes afterwards, so every restoreConfig
\* writes captured bytes.
C14_RestoreOnlyAfterBackup ==
    [][/\ (pc = "main" /\ ~(file.exists /\ Unmarshal(file.lines).ok))
             => (pc' = "exit1" /\ file' = file)
       /\ pc # "exit1"
       /\ (pc' = "backedUp")
             => (/\ file.exists
                 /\ Unmarshal(file.lines).ok
                 /\ originalToml' = file.lines
                 /\ file' = file)
       /\ (pc # "main") => (originalToml' = originalToml)
       /\ QuitKeyStep => (/\ pc = "running"
                          /\ Unmarshal(originalToml).ok
                          /\ tomlBackup = Unmarshal(originalToml).doc)]_vars

\* C14 witness: backupConfig has failed on a file that does not parse, the
\* process has exited with code 1 and the file is as it was.
C14_Witness ==
    /\ pc = "exit1"
    /\ file.exists
    /\ file.lines = FileGarbage
    /\ originalToml = << >>
    /\ quitCmd = << >>

\* C15: with the selection moved across theme files, no quit, no other
\* writer, and every issued patch completed without error, the file's import
\* list is the path of the highlighted theme file (the one evaluated last),
\* whatever the order of the patches' reads and writes.
C15_PatchesConverge ==
    (/\ pc = "running"
     /\ quitCmd = << >>
     /\ nExternal = 0
     /\ Len(patches) >= 2
     /\ \A i \in 1..Len(patches) : Succeeded(patches[i])
     /\ Highlighted # << >>
     /\ IsThemeFile(Highlighted[1])
     /\ lastSelected = Index
     /\ patches[Len(patches)].path = Highlighted[1].path)
    => ThemeApplied(file.lines, Highlighted[1].path)

\* The rendering of a theme file at a width.
PreviewOf(path, width) == renderColorPreview(ReadThemeFile(path).content, width)

\* C16: whenever the view is ready, no error is latched and a theme file is
\* highlighted, the viewport's content is that file's rendering at the
\* viewport's width - after any resize and whichever of the list load and
\* the first resize was handled first.
C16_PreviewIsCurrent ==
    (/\ ready
     /\ err = NoErr
     /\ Highlighted # << >>
     /\ IsThemeFile(Highlighted[1]))
    => preview = PreviewOf(Highlighted[1].path, vpSize.Width)

\* A window-size message was handled.
ResizeStep == nResizes' = nResizes + 1

\* C17: after every window-size message the list and the viewport are half
\* the message's width (integer division) wide and as high as the message
\* says; ready is false until the first such message, true after it, and
\* never false again.
C17_PanesFollowResize ==
    [][/\ ResizeStep
             => (/\ listSize' = [Width |-> GoDiv(windowSize'.Width, 2),
                                 Height |-> windowSize'.Height]
                 /\ vpSize' = [Width |-> GoDiv(windowSize'.Width, 2),
                               Height |-> windowSize'.Height]
                 /\ ready')
       /\ (nResizes = 0) => ~ready
       /\ ready => ready']_vars

\* A step in which handleSelection is called, in the program or on its own.
SelectionCall == HandleSelectionStep \/ (pc = "selecting" /\ pc' = "selected")

\* C18: a call of handleSelection with no entry highlighted (empty list) or
\* with a directory highlighted (".." included) reads no theme file and
\* issues no patch; the config file, the viewport content and model.err are
\* as before.
C18_NoThemeNoEffect ==
    [][SelectionCall =>
          LET sel == SelectedItemAt(items', Index')
          IN  (sel = << >> \/ sel[1].isDirectory)
                 => (/\ lastMsg'.read = << >>
                     /\ patches' = patches
                     /\ file' = file
                     /\ preview' = preview
                     /\ err' = err
                     /\ lastSelected' = Index')]_vars

\* C18 witness: handleSelection has evaluated a selection of the ".." entry
\* with a preview in the viewport, and the preview is still there.
C18_Witness ==
    /\ pc = "selected"
    /\ lastMsg.evaluated
    /\ Highlighted # << >>
    /\ Highlighted[1].title = DotDot
    /\ Highlighted[1].isDirectory
    /\ preview = OldPreview
    /\ patches = << >>
    /\ err = NoErr

\* C19: when the selection moves onto a theme file that can be read but
\* does not parse as a color scheme (by a move or page key or the list load),
\* the viewport shows the parse-error message, model.err is as before, the
\* session goes on and one patch for that file's path is issued.  On enter,
\* which ends the session and returns no command whatever the file holds,
\* the viewport and model.err behave the same.
C19_MalformedTolerated ==
    [][HandleSelectionStep =>
          LET sel == SelectedItemAt(items', Index')
          IN  (/\ lastMsg'.evaluated
               /\ sel # << >>
               /\ IsThemeFile(sel[1])
               /\ ReadThemeFile(sel[1].path).ok
               /\ ~ReadThemeFile(sel[1].path).content.valid)
              => (/\ preview'.kind = "parseError"
                  /\ preview'.scheme = ReadThemeFile(sel[1].path).content.scheme
                  /\ err' = err
                  /\ pc' = "running"
                  /\ ~EnterKeyStep
                        => (/\ quitCmd' = quitCmd
                            /\ Len(patches') = Len(patches) + 1
                            /\ SubSeq(patches', 1, Len(patches)) = patches
                            /\ patches'[Len(patches')].path = sel[1].path
                            /\ patches'[Len(patches')].st = "issued"))]_vars

\* C19 witness: the highlight was moved onto the malformed z.toml; the
\* viewport shows the parse error, no error is latched, the session runs and
\* the patch for z.toml has written the file.
C19_Witness ==
    /\ pc = "running"
    /\ quitCmd = << >>
    /\ err = NoErr
    /\ Highlighted # << >>
    /\ Highlighted[1].path = ThemePath("z")
    /\ lastMsg.read = <<ThemePath("z")>>
    /\ preview.kind = "parseError"
    /\ \E i \in 1..Len(patches) :
          /\ patches[i].path = ThemePath("z")
          /\ Succeeded(patches[i])
          /\ file.lines = patches[i].buf

\* C20: every box width renderColorPreview has computed, the one for the
\* viewport width before the first window-size message included, is
\* non-negative, and the four boxes with the spacing between them fit the
\* content width.
C20_BoxesFit ==
    (preview.kind = "preview")
    => (/\ preview.boxWidth >= 0
        /\ NumColumns * preview.boxWidth + (NumColumns - 1) * BoxSpacing
              <= preview.contentWidth)

====
